---- MODULE Spec2Model ----
(***************************************************************************)
(* Azure DevOps Pipeline Advisor.                                          *)
(*                                                                         *)
(* Two parts are modelled.                                                 *)
(*  - The React component PipelineAnalyzer (frontend/src/components/       *)
(*    PipelineAnalyzer.js) hosted in a tab of App: its four state hooks,   *)
(*    its two handlers, the requests it has in flight and the way such a   *)
(*    request settles.                                                     *)
(*  - The analysis engine behind POST /api/pipelines/analyze (extract,     *)
(*    evaluate, assemble).  The backend file is not among the sources, so  *)
(*    these operators follow sections 4.2 - 4.4 of the specification.      *)
(***************************************************************************)
EXTENDS Integers, Sequences, FiniteSets, TLC

VARIABLES
    tabValue,     \* App: index of the selected tab (0 = Analyze YAML)
    yamlContent,  \* PipelineAnalyzer: useState('')      text of the field
    analysis,     \* PipelineAnalyzer: useState(null)    last response data
    loading,      \* PipelineAnalyzer: useState(false)
    error,        \* PipelineAnalyzer: useState('')
    pending,      \* axios.post calls of the mounted component that have not settled
    orphaned,     \* number of unsettled calls whose component was unmounted
    last,         \* history: the handler that ran last and the state it saw
    doc,          \* analysis engine: the parsed document under analysis
    result        \* analysis engine: what analyze returned for doc

vars == <<tabValue, yamlContent, analysis, loading, error, pending, orphaned, last, doc, result>>

uiVars == <<tabValue, yamlContent, analysis, loading, error, pending, orphaned, last>>

engineVars == <<doc, result>>

-----------------------------------------------------------------------------
(* Bounds of the model *)

\* longest text typed or pasted into the field
MaxLen == 2

\* most requests in flight at once that the model follows
MaxPending == 2

\* most entries of a `stages` sequence
MaxStages == 2

-----------------------------------------------------------------------------
(* Values *)

\* null, and a value v that is not null, as the hooks hold them
Null == <<>>

Some(v) == <<v>>

Undefined == "undefined"

\* characters of a text: two kinds of white space and one other character
WhiteSpace == {" ", "\n"}

Chars == WhiteSpace \cup {"a"}

\* the sequences over S of length at most n
SeqsUpTo(S, n) == UNION {[1..k -> S] : k \in 0..n}

Texts == SeqsUpTo(Chars, MaxLen)

\* String.prototype.trim: white space removed from both ends
RECURSIVE TrimStart(_)
TrimStart(s) ==
    IF s = <<>> THEN <<>>
    ELSE IF Head(s) \in WhiteSpace THEN TrimStart(Tail(s))
    ELSE s

RECURSIVE TrimEnd(_)
TrimEnd(s) ==
    IF s = <<>> THEN <<>>
    ELSE IF s[Len(s)] \in WhiteSpace THEN TrimEnd(SubSeq(s, 1, Len(s) - 1))
    ELSE s

Trim(s) == TrimEnd(TrimStart(s))

-----------------------------------------------------------------------------
(* The analyze request and the ways it can fail *)

\* the words of the messages setError is given
MsgEmptyInput == "Please enter YAML content to analyze"

MsgFailed == "Failed to analyze pipeline"

\* err.response.data.error as a server may send it: a message, or ''
ServerErrors == {"Invalid YAML", "Request too large", ""}

\* what the catch clause can be handed: no response at all (network error),
\* a response without a body, a body without an error field, a body with one
Failures ==
    {[response |-> FALSE, data |-> FALSE, error |-> Undefined],
     [response |-> TRUE,  data |-> FALSE, error |-> Undefined],
     [response |-> TRUE,  data |-> TRUE,  error |-> Undefined]}
    \cup {[response |-> TRUE, data |-> TRUE, error |-> e] : e \in ServerErrors}

NoFailure == [response |-> FALSE, data |-> FALSE, error |-> "none"]

\* err.response?.data?.error
ResponseError(err) ==
    IF err.response /\ err.data THEN err.error ELSE Undefined

\* a catch clause that drops what the server said
FailureMessageSwallowed(err) == MsgFailed

\* err.response?.data?.error || 'Failed to analyze pipeline'
FailureMessage(err) ==
    IF ResponseError(err) \notin {Undefined, ""} THEN ResponseError(err) ELSE MsgFailed

-----------------------------------------------------------------------------
(* The analysis engine: documents *)

\* a key the mapping does not have (or has with a value that is no sequence)
NoKey == -1

NoName == "unnamed"

\* declared stage names; "stage_1" is a name a document is free to declare
StageNames == {"Build", "stage_1"}

\* a stage has more jobs than this: it may benefit from splitting
JobThreshold == 10

\* a pipeline without caching has more steps than this: caching is advised
StepThreshold == 5

\* `jobs` of a stage: absent, or a sequence of this many jobs
JobCounts == {1, JobThreshold, JobThreshold + 1}

\* `steps` of each job (of the stage itself when it has no `jobs`): absent,
\* or a sequence of this many steps, one of which may be a caching task
StepShapes ==
    {[steps |-> NoKey, cache |-> FALSE],
     [steps |-> 1, cache |-> FALSE],
     [steps |-> 1, cache |-> TRUE],
     [steps |-> StepThreshold + 1, cache |-> FALSE]}

\* the body of a stage, and of a document that has no `stages`
Bodies ==
    {[jobs |-> j, steps |-> sh.steps, cache |-> sh.cache] :
        j \in {NoKey} \cup JobCounts, sh \in StepShapes}

EmptyBody == [jobs |-> NoKey, steps |-> NoKey, cache |-> FALSE]

Stages ==
    {[name |-> n, jobs |-> b.jobs, steps |-> b.steps, cache |-> b.cache] :
        n \in {NoName} \cup StageNames, b \in Bodies}

\* PipelineDocument: the root mapping with its `trigger`, and either a
\* `stages` sequence or the jobs / steps of one implicit stage
DocsUpTo(n) ==
    {[trigger |-> t, hasStages |-> FALSE, stages |-> <<>>, top |-> b] :
        t \in BOOLEAN, b \in Bodies}
    \cup {[trigger |-> t, hasStages |-> TRUE, stages |-> s, top |-> EmptyBody] :
            t \in BOOLEAN, s \in SeqsUpTo(Stages, n)}

EmptyDoc == [trigger |-> FALSE, hasStages |-> FALSE, stages |-> <<>>, top |-> EmptyBody]

-----------------------------------------------------------------------------
(* The analysis engine: extract, evaluate, assemble *)

\* step 1 of extract: the entries of `stages`, else the document as one
\* implicit stage when it has any job or step structure
StagesOf(d) ==
    IF d.hasStages THEN d.stages
    ELSE IF d.top.jobs # NoKey \/ d.top.steps # NoKey
         THEN <<[name |-> NoName, jobs |-> d.top.jobs, steps |-> d.top.steps,
                 cache |-> d.top.cache]>>
         ELSE <<>>

\* step 2 of extract: the entries of `jobs`, else one implicit job for `steps`
JobsOf(st) ==
    IF st.jobs # NoKey THEN st.jobs
    ELSE IF st.steps # NoKey THEN 1 ELSE 0

StepsOf(st) == IF st.steps = NoKey THEN 0 ELSE JobsOf(st) * st.steps

CachesIn(st) == st.cache /\ StepsOf(st) > 0

\* step 4 of extract: the declared name, else the placeholder stage_<index>,
\* the index counted from 0 in document order
StageKey(st, index) ==
    IF st.name # NoName THEN st.name ELSE "stage_" \o ToString(index)

\* an ordered mapping is a sequence of entries with pairwise different keys
KeysOf(m) == {m[i].key : i \in 1..Len(m)}

\* m[key] = jobs on an ordered mapping: a key already there keeps its place
\* and takes the new value, a new key goes to the end
Put(m, key, jobs) ==
    IF key \in KeysOf(m)
    THEN [i \in 1..Len(m) |-> IF m[i].key = key THEN [key |-> key, jobs |-> jobs] ELSE m[i]]
    ELSE Append(m, [key |-> key, jobs |-> jobs])

RECURSIVE JobsPerStage(_, _)
JobsPerStage(stages, n) ==
    IF n = 0 THEN <<>>
    ELSE Put(JobsPerStage(stages, n - 1), StageKey(stages[n], n - 1), JobsOf(stages[n]))

RECURSIVE TotalSteps(_, _)
TotalSteps(stages, n) ==
    IF n = 0 THEN 0 ELSE TotalSteps(stages, n - 1) + StepsOf(stages[n])

\* extract(doc) -> Metrics
extract(d) ==
    LET stages == StagesOf(d)
    IN  [stages_count   |-> Len(stages),
         jobs_per_stage |-> JobsPerStage(stages, Len(stages)),
         total_steps    |-> TotalSteps(stages, Len(stages)),
         has_cache      |-> \E i \in 1..Len(stages) : CachesIn(stages[i]),
         has_trigger    |-> d.trigger]

\* the messages, word by word
MsgNoStages == <<"No", "stages", "or", "jobs", "detected">>

MsgSplit(key) == <<"Stage", key, "has", "many", "jobs,", "consider", "splitting", "it">>

MsgCache == <<"Consider", "adding", "caching", "to", "reduce", "pipeline", "duration">>

MsgTrigger == <<"No", "explicit", "trigger,", "add", "a", "trigger", "block">>

MsgGood == <<"Pipeline", "configuration", "looks", "good">>

\* the four warning rules, each appending at most one message
RuleNoStages(d, m) == IF m.stages_count = 0 THEN <<MsgNoStages>> ELSE <<>>

RuleJobCount(d, m) ==
    LET over == {i \in 1..Len(m.jobs_per_stage) : m.jobs_per_stage[i].jobs > JobThreshold}
    IN  IF over = {} THEN <<>>
        ELSE <<MsgSplit(m.jobs_per_stage[CHOOSE i \in over : \A j \in over : i <= j].key)>>

RuleCaching(d, m) ==
    IF ~m.has_cache /\ m.total_steps > StepThreshold THEN <<MsgCache>> ELSE <<>>

RuleTrigger(d, m) == IF ~m.has_trigger THEN <<MsgTrigger>> ELSE <<>>

Warnings(d, m) ==
    RuleNoStages(d, m) \o RuleJobCount(d, m) \o RuleCaching(d, m) \o RuleTrigger(d, m)

\* an engine that appends the positive message whatever the rules said
evaluateAlwaysPositive(d, m) == Warnings(d, m) \o <<MsgGood>>

\* evaluate(doc, metrics) -> ordered sequence of Recommendation
evaluate(d, m) ==
    IF Warnings(d, m) = <<>> THEN <<MsgGood>> ELSE Warnings(d, m)

\* assemble(metrics, recommendations) -> AnalysisResult
assemble(m, recs) ==
    [analysis        |-> [stages_count |-> m.stages_count, jobs_per_stage |-> m.jobs_per_stage],
     recommendations |-> recs]

\* analyze of a parsed document
analyze(d) == assemble(extract(d), evaluate(d, extract(d)))

-----------------------------------------------------------------------------
(* PipelineAnalyzer: what it renders of an analysis *)

\* rec.includes(words), a message taken word by word
Includes(rec, words) ==
    \E i \in 1..(Len(rec) - Len(words) + 1) : SubSeq(rec, i, i + Len(words) - 1) = words

\* rec.includes('looks good') ? <CheckCircleIcon/> : <WarningIcon/>
RecIcon(rec) ==
    IF Includes(rec, <<"looks", "good">>) THEN "CheckCircleIcon" ELSE "WarningIcon"

\* analysis.recommendations?.map(...): one list item per recommendation
RecommendationItems(a) ==
    [i \in 1..Len(a.recommendations) |->
        [icon |-> RecIcon(a.recommendations[i]), primary |-> a.recommendations[i]]]

\* the metrics list: the line `Stages: n`, then one `Jobs in <stage>: <jobs>`
\* item per entry of Object.entries(analysis.analysis.jobs_per_stage)
MetricsItems(a) ==
    <<[primary |-> "Stages", value |-> a.analysis.stages_count]>>
    \o [i \in 1..Len(a.analysis.jobs_per_stage) |->
           [primary |-> a.analysis.jobs_per_stage[i].key,
            value   |-> a.analysis.jobs_per_stage[i].jobs]]

-----------------------------------------------------------------------------
(* PipelineAnalyzer: state *)

\* documents a server answers with the analysis of
SampleDocs ==
    {[trigger |-> TRUE, hasStages |-> FALSE, stages |-> <<>>,
      top |-> [jobs |-> NoKey, steps |-> 1, cache |-> TRUE]],
     [trigger |-> FALSE, hasStages |-> TRUE, top |-> EmptyBody,
      stages |-> <<[name |-> "Build", jobs |-> JobThreshold + 1, steps |-> 1,
                    cache |-> FALSE]>>]}

\* response.data of a request that succeeds
ResponseData == {analyze(d) : d \in SampleDocs}

\* the four hooks as a handler finds them, and the number of its requests in flight
Hooks == [yamlContent |-> yamlContent, analysis |-> analysis,
          loading |-> loading, error |-> error, inFlight |-> Len(pending)]

InitialHooks == [yamlContent |-> <<>>, analysis |-> Null, loading |-> FALSE, error |-> "",
                 inFlight |-> 0]

\* history: handler op ran in the state Hooks; a settling request brought
\* the response data (Null when none) or the failure err
Ran(op, data, err) == [op |-> op, pre |-> Hooks, data |-> data, err |-> err]

Remove(s, i) == SubSeq(s, 1, i - 1) \o SubSeq(s, i + 1, Len(s))

Init ==
    /\ tabValue = 0
    /\ yamlContent = <<>>
    /\ analysis = Null
    /\ loading = FALSE
    /\ error = ""
    /\ pending = <<>>
    /\ orphaned = 0
    /\ last = [op |-> "mount", pre |-> InitialHooks, data |-> Null, err |-> NoFailure]
    /\ doc = EmptyDoc
    /\ result = Null

-----------------------------------------------------------------------------
(* PipelineAnalyzer: handlers *)

\* a button that forgets the request in flight: disabled={!yamlContent.trim()}
ButtonDisabledTextOnly == Trim(yamlContent) = <<>>

\* disabled={loading || !yamlContent.trim()}
ButtonDisabled == loading \/ Trim(yamlContent) = <<>>

\* a handler that tests the text without trimming it: if (!yamlContent)
handleAnalyzeNoTrim ==
    /\ tabValue = 0
    /\ IF yamlContent = <<>>
       THEN /\ error' = MsgEmptyInput
            /\ last' = Ran("refused", Null, NoFailure)
            /\ UNCHANGED <<loading, pending>>
       ELSE /\ Len(pending) + orphaned < MaxPending
            /\ loading' = TRUE
            /\ error' = ""
            /\ pending' = Append(pending, [yaml_content |-> yamlContent])
            /\ last' = Ran("sent", Null, NoFailure)
    /\ UNCHANGED <<tabValue, yamlContent, analysis, orphaned>>
    /\ UNCHANGED engineVars

\* handleAnalyze up to its await: the guard, setLoading(true), setError(''),
\* axios.post('/api/pipelines/analyze', {yaml_content: yamlContent})
handleAnalyze ==
    /\ tabValue = 0
    /\ IF Trim(yamlContent) = <<>>
       THEN /\ error' = MsgEmptyInput
            /\ last' = Ran("refused", Null, NoFailure)
            /\ UNCHANGED <<loading, pending>>
       ELSE /\ Len(pending) + orphaned < MaxPending
            /\ loading' = TRUE
            /\ error' = ""
            /\ pending' = Append(pending, [yaml_content |-> yamlContent])
            /\ last' = Ran("sent", Null, NoFailure)
    /\ UNCHANGED <<tabValue, yamlContent, analysis, orphaned>>
    /\ UNCHANGED engineVars

\* onClick={handleAnalyze} of a button that is not disabled
ClickAnalyze ==
    /\ ~ButtonDisabled
    /\ handleAnalyze

\* handleYamlChange(event), event.target.value = value
handleYamlChange(value) ==
    /\ tabValue = 0
    /\ value # yamlContent
    /\ yamlContent' = value
    /\ analysis' = IF analysis # Null THEN Null ELSE analysis
    /\ error' = IF error # "" THEN "" ELSE error
    /\ last' = Ran("changed", Null, NoFailure)
    /\ UNCHANGED <<tabValue, loading, pending, orphaned>>
    /\ UNCHANGED engineVars

\* the await returns: setAnalysis(response.data), then finally setLoading(false)
Resolve(i, data) ==
    /\ i \in 1..Len(pending)
    /\ pending' = Remove(pending, i)
    /\ analysis' = Some(data)
    /\ loading' = FALSE
    /\ last' = Ran("resolved", Some(data), NoFailure)
    /\ UNCHANGED <<tabValue, yamlContent, error, orphaned>>
    /\ UNCHANGED engineVars

\* a handler without its finally clause: a failure leaves loading set
RejectWithoutFinally(i, err) ==
    /\ i \in 1..Len(pending)
    /\ pending' = Remove(pending, i)
    /\ error' = FailureMessage(err)
    /\ last' = Ran("rejected", Null, err)
    /\ UNCHANGED <<tabValue, yamlContent, analysis, loading, orphaned>>
    /\ UNCHANGED engineVars

\* the await throws err: setError(...), then finally setLoading(false)
Reject(i, err) ==
    /\ i \in 1..Len(pending)
    /\ pending' = Remove(pending, i)
    /\ error' = FailureMessage(err)
    /\ loading' = FALSE
    /\ last' = Ran("rejected", Null, err)
    /\ UNCHANGED <<tabValue, yamlContent, analysis, orphaned>>
    /\ UNCHANGED engineVars

\* a call whose component was unmounted settles, either way: its setters
\* belong to hooks that are gone and update nothing
SettleUnmounted ==
    /\ orphaned > 0
    /\ orphaned' = orphaned - 1
    /\ UNCHANGED <<tabValue, yamlContent, analysis, loading, error, pending, last>>
    /\ UNCHANGED engineVars

\* App.handleTabChange(event, newValue).  TabPanel renders its children only
\* when its tab is selected: leaving tab 0 unmounts PipelineAnalyzer, whose
\* hooks are gone, and coming back mounts a new one with the initial hooks.
handleTabChange(newValue) ==
    /\ newValue # tabValue
    /\ tabValue' = newValue
    /\ yamlContent' = InitialHooks.yamlContent
    /\ analysis' = InitialHooks.analysis
    /\ loading' = InitialHooks.loading
    /\ error' = InitialHooks.error
    /\ pending' = <<>>
    /\ orphaned' = orphaned + Len(pending)
    /\ last' = Ran(IF newValue = 0 THEN "mount" ELSE "unmount", Null, NoFailure)
    /\ UNCHANGED engineVars

Next ==
    \/ ClickAnalyze
    \/ \E value \in Texts : handleYamlChange(value)
    \/ \E i \in 1..MaxPending, data \in ResponseData : Resolve(i, data)
    \/ \E i \in 1..MaxPending, err \in Failures : Reject(i, err)
    \/ SettleUnmounted
    \/ \E newValue \in {0, 1} : handleTabChange(newValue)

Spec == Init /\ [][Next]_vars

\* handleAnalyze called whatever text the field holds: of the button's
\* disabled={loading || !yamlContent.trim()} only the loading half is kept, so
\* that the handler's own guard is all that stands between the text and the
\* request
InvokeAnalyze ==
    /\ ~loading
    /\ handleAnalyze

NextHandler ==
    \/ InvokeAnalyze
    \/ \E value \in Texts : handleYamlChange(value)
    \/ \E i \in 1..MaxPending, data \in ResponseData : Resolve(i, data)
    \/ \E i \in 1..MaxPending, err \in Failures : Reject(i, err)
    \/ SettleUnmounted
    \/ \E newValue \in {0, 1} : handleTabChange(newValue)

SpecHandler == Init /\ [][NextHandler]_vars

-----------------------------------------------------------------------------
(* The analysis engine run on every document of the bounded family *)

InitAnalyzer ==
    /\ tabValue = 0
    /\ yamlContent = <<>>
    /\ analysis = Null
    /\ loading = FALSE
    /\ error = ""
    /\ pending = <<>>
    /\ orphaned = 0
    /\ last = [op |-> "mount", pre |-> InitialHooks, data |-> Null, err |-> NoFailure]
    /\ doc \in DocsUpTo(MaxStages)
    /\ result = Null

\* caller -> analyze -> {analysis, recommendations}
Analyze ==
    /\ result = Null
    /\ result' = Some(analyze(doc))
    /\ UNCHANGED doc
    /\ UNCHANGED uiVars

NextAnalyzer == Analyze

SpecAnalyzer == InitAnalyzer /\ [][NextAnalyzer]_vars

-----------------------------------------------------------------------------
(* Properties *)

\* a text of white space only, the empty text included
IsBlank(t) == \A i \in 1..Len(t) : t[i] \in WhiteSpace

\* the failure carries a message of the server
CarriesMessage(err) == err.response /\ err.data /\ err.error \notin {Undefined, ""}

\* C1: the recommendation list analyze returns is never empty; it is exactly
\* the single positive message when none of the four warning rules fires (some
\* stage found, no stage over the job threshold, caching present or few steps,
\* trigger present), and the positive message appears in no other case, so
\* never beside a warning.
C1_RecommendationsNeverEmpty ==
    result # Null =>
        LET recs  == result[1].recommendations
            jps   == result[1].analysis.jobs_per_stage
            m     == extract(doc)
            quiet == /\ result[1].analysis.stages_count # 0
                     /\ \A i \in 1..Len(jps) : jps[i].jobs <= JobThreshold
                     /\ m.has_cache \/ m.total_steps <= StepThreshold
                     /\ doc.trigger
            good  == <<"Pipeline", "configuration", "looks", "good">>
        IN  /\ recs # <<>>
            /\ quiet <=> recs = <<good>>
            /\ \A i \in 1..Len(recs) : recs[i] = good => Len(recs) = 1

\* C1 witness: a document of two stages that draws no warning was analysed
\* and the list is the positive message alone, shown with CheckCircleIcon
C1_Witness ==
    /\ result # Null
    /\ doc.hasStages /\ Len(doc.stages) = 2
    /\ result[1].recommendations = <<MsgGood>>
    /\ RecommendationItems(result[1])[1].icon = "CheckCircleIcon"

\* C2: stages_count = length(jobs_per_stage): one entry per stage found, in
\* document order, keyed by the declared name of the stage, or by stage_<index>
\* when it declares none, and holding the number of its jobs.
C2_OneEntryPerStage ==
    result # Null =>
        LET a      == result[1].analysis
            stages == StagesOf(doc)
        IN  /\ a.stages_count = Len(stages)
            /\ a.stages_count = Len(a.jobs_per_stage)
            /\ Len(MetricsItems(result[1])) = 1 + a.stages_count
            /\ \A i \in 1..Len(stages) :
                  /\ a.jobs_per_stage[i].key =
                        IF stages[i].name # NoName THEN stages[i].name
                        ELSE "stage_" \o ToString(i - 1)
                  /\ a.jobs_per_stage[i].jobs = JobsOf(stages[i])

\* C3: right after a failed request is handled, error is not empty: it is the
\* message of the server when the response carries one, else the fixed text;
\* analysis and yamlContent are as before and loading is false again.
C3_FailureReported ==
    last.op = "rejected" =>
        /\ error # ""
        /\ error = IF CarriesMessage(last.err) THEN last.err.error
                   ELSE "Failed to analyze pipeline"
        /\ analysis = last.pre.analysis
        /\ yamlContent = last.pre.yamlContent
        /\ ~loading
        /\ tabValue = 0

\* C3 witness: a failure carrying the server's message was handled while an
\* earlier analysis was on display
C3_Witness ==
    /\ last.op = "rejected"
    /\ last.err.error = "Invalid YAML"
    /\ error = "Invalid YAML"
    /\ analysis # Null

\* C4: the component has at most one request in flight: while one is, the
\* button is disabled, and a request is only sent when none is in flight.
C4_OneRequestInFlight ==
    /\ Len(pending) <= 1
    /\ Len(pending) = 1 => ButtonDisabled
    /\ last.op = "sent" => last.pre.inFlight = 0 /\ Len(pending) = 1

\* C4 witness: a request is in flight and the field was edited to a text
\* that alone would leave the button enabled
C4_Witness ==
    /\ Len(pending) = 1
    /\ last.op = "changed"
    /\ ~IsBlank(yamlContent)
    /\ yamlContent # pending[1].yaml_content

\* C5: loading is true exactly while a request of the component is in flight:
\* sending sets it, every settling clears it; a success sets analysis to the
\* response data and leaves error empty, a failure sets error and leaves
\* analysis as it was.
C5_LoadingWhileInFlight ==
    /\ loading <=> Len(pending) > 0
    /\ last.op = "sent" => loading
    /\ last.op \in {"resolved", "rejected"} => last.pre.loading /\ ~loading
    /\ last.op = "resolved" =>
          /\ last.data # Null /\ analysis = last.data
          /\ error = "" /\ error = last.pre.error
    /\ last.op = "rejected" => error # "" /\ analysis = last.pre.analysis

\* C5 witness: a failure has just been handled and the component is out of
\* the loading state, the earlier analysis still shown
C5_Witness ==
    /\ last.op = "rejected"
    /\ last.pre.loading
    /\ ~loading
    /\ analysis # Null

\* C6: no request carries a blank text: handleAnalyze called on a blank text
\* only sets error to the fixed message, leaving loading, analysis, yamlContent
\* and the requests in flight alone, and the button is disabled for such text.
C6_NoBlankRequest ==
    /\ \A i \in 1..Len(pending) : ~IsBlank(pending[i].yaml_content)
    /\ last.op = "sent" => ~IsBlank(last.pre.yamlContent)
    /\ last.op = "refused" =>
          /\ IsBlank(last.pre.yamlContent)
          /\ error = "Please enter YAML content to analyze"
          /\ loading = last.pre.loading
          /\ analysis = last.pre.analysis
          /\ yamlContent = last.pre.yamlContent
          /\ Len(pending) = last.pre.inFlight
    /\ IsBlank(yamlContent) => ButtonDisabled

\* C6 witness: handleAnalyze ran on a text of white space alone
C6_Witness ==
    /\ last.op = "refused"
    /\ Len(last.pre.yamlContent) > 0
    /\ error = MsgEmptyInput
    /\ pending = <<>>

====
